---- MODULE Spec2Model ----
(***************************************************************************)
(* Entity catalog construction of PlotLens (src/engine/coref.py):          *)
(* NER mentions + optional pronoun mentions -> alias clustering -> sorted  *)
(* catalog.  Strings are sequences of one-character strings.               *)
(***************************************************************************)
EXTENDS Integers, Sequences, FiniteSets, TLC

VARIABLES pc, mentions, mi, groups, entities,
          chapters, ci, ner_mentions, extra, COREF_OK

\* pc            position in build_entity_catalog / _cluster_aliases
\* mentions      the mention list given to _cluster_aliases (all_mentions)
\* mi            number of mentions the loop of _cluster_aliases has consumed
\* groups        the entity list of _cluster_aliases, in creation order
\* entities      the sorted entity list build_entity_catalog returns
\* chapters      number of chapters; ingest numbers them 1..chapters in order
\* ci            id of the chapter the running "for ch in chapters" is at
\* ner_mentions  the result of _spacy_ner_mentions so far
\* extra         the pronoun mentions _apply_coref has gathered so far
\* COREF_OK      whether fastcoref could be loaded
vars == <<pc, mentions, mi, groups, entities, chapters, ci, ner_mentions, extra, COREF_OK>>

----------------------------------------------------------------------------
(* Bounds *)

MaxMentions == 3
MaxChapter == 2
MaxSortMentions == 11
MaxEnts == 1
MaxSurfaces == 2

----------------------------------------------------------------------------
(* Characters and Python string primitives *)

Range(s) == {s[i] : i \in 1..Len(s)}

UpperSeq == <<"A","B","C","D","E","F","G","H","I","J","K","L","M",
              "N","O","P","Q","R","S","T","U","V","W","X","Y","Z">>
LowerSeq == <<"a","b","c","d","e","f","g","h","i","j","k","l","m",
              "n","o","p","q","r","s","t","u","v","w","x","y","z">>
DigitSeq == <<"0","1","2","3","4","5","6","7","8","9">>

\* \s of the regular expressions and of str.strip / str.split
WhiteSpace == {" ", "\t", "\n"}

\* \w of the regular expressions
WordChars == Range(UpperSeq) \cup Range(LowerSeq) \cup Range(DigitSeq) \cup {"_"}

\* str.lower on one character
LowerChar(c) ==
  IF c \in Range(UpperSeq)
    THEN LowerSeq[CHOOSE i \in 1..Len(UpperSeq) : UpperSeq[i] = c]
    ELSE c

lower(s) == [i \in 1..Len(s) |-> LowerChar(s[i])]

RECURSIVE lstrip(_)
lstrip(s) == IF s # <<>> /\ Head(s) \in WhiteSpace THEN lstrip(Tail(s)) ELSE s

RECURSIVE rstrip(_)
rstrip(s) ==
  IF s # <<>> /\ s[Len(s)] \in WhiteSpace THEN rstrip(SubSeq(s, 1, Len(s) - 1)) ELSE s

\* str.strip()
strip(s) == rstrip(lstrip(s))

\* _PUNCT_RE.sub(" ", s) with _PUNCT_RE = [^\w\s'-]
PUNCT_RE_sub(s) ==
  [i \in 1..Len(s) |->
     IF s[i] \in WordChars \cup WhiteSpace \cup {"'", "-"} THEN s[i] ELSE " "]

\* re.sub(r"\s+", " ", s)
RECURSIVE collapse_ws(_)
collapse_ws(s) ==
  IF s = <<>> THEN <<>>
  ELSE IF Head(s) \in WhiteSpace
         THEN <<" ">> \o collapse_ws(lstrip(s))
         ELSE <<Head(s)>> \o collapse_ws(Tail(s))

norm_alias(s) == lower(collapse_ws(PUNCT_RE_sub(strip(s))))

\* len(s.split()): number of maximal runs of non-whitespace characters
RECURSIVE split_len(_)
split_len(s) ==
  LET t == lstrip(s) IN
  IF t = <<>> THEN 0
  ELSE LET k == CHOOSE n \in 1..Len(t) :
                  /\ \A i \in 1..n : t[i] \notin WhiteSpace
                  /\ (n = Len(t) \/ t[n + 1] \in WhiteSpace)
       IN 1 + split_len(SubSeq(t, k + 1, Len(t)))

\* str(n) for n >= 0
RECURSIVE str(_)
str(n) == IF n < 10 THEN <<DigitSeq[n + 1]>> ELSE str(n \div 10) \o <<DigitSeq[(n % 10) + 1]>>

\* code point of the characters entity ids are made of
ord(c) ==
  IF c \in Range(DigitSeq) THEN 47 + (CHOOSE i \in 1..10 : DigitSeq[i] = c) ELSE 69

\* Python's str < str (lexicographic by code point)
RECURSIVE str_lt(_, _)
str_lt(a, b) ==
  IF b = <<>> THEN FALSE
  ELSE IF a = <<>> THEN TRUE
  ELSE IF Head(a) # Head(b) THEN ord(Head(a)) < ord(Head(b))
  ELSE str_lt(Tail(a), Tail(b))

----------------------------------------------------------------------------
(* difflib.SequenceMatcher(None, a, b).ratio(), no junk (strings < 200) *)

\* length of the common run starting at a[i], b[j]
RECURSIVE run_len(_, _, _, _)
run_len(a, b, i, j) ==
  IF i <= Len(a) /\ j <= Len(b) /\ a[i] = b[j] THEN 1 + run_len(a, b, i + 1, j + 1) ELSE 0

\* find_longest_match: longest block, earliest in a, then earliest in b
find_longest_match(a, b) ==
  LET I == 1..Len(a)
      J == 1..Len(b)
      sizes == {run_len(a, b, i, j) : i \in I, j \in J}
      k == IF sizes = {} THEN 0 ELSE CHOOSE x \in sizes : \A y \in sizes : y <= x
  IN IF k = 0 THEN <<1, 1, 0>>
     ELSE LET besti == CHOOSE i \in I : /\ \E j \in J : run_len(a, b, i, j) = k
                                        /\ \A i2 \in 1..(i - 1) : \A j \in J : run_len(a, b, i2, j) # k
              bestj == CHOOSE j \in J : /\ run_len(a, b, besti, j) = k
                                        /\ \A j2 \in 1..(j - 1) : run_len(a, b, besti, j2) # k
          IN <<besti, bestj, k>>

\* sum of the sizes of get_matching_blocks()
RECURSIVE matches(_, _)
matches(a, b) ==
  IF a = <<>> \/ b = <<>> THEN 0
  ELSE LET m == find_longest_match(a, b)
           i == m[1]
           j == m[2]
           k == m[3]
       IN IF k = 0 THEN 0
          ELSE k + matches(SubSeq(a, 1, i - 1), SubSeq(b, 1, j - 1))
                 + matches(SubSeq(a, i + k, Len(a)), SubSeq(b, j + k, Len(b)))

\* ratio as the exact fraction <<numerator, denominator>>; 1.0 for two empty strings
ratio(a, b) ==
  IF Len(a) + Len(b) = 0 THEN <<1, 1>> ELSE <<2 * matches(a, b), Len(a) + Len(b)>>

score_gt(x, y) == x[1] * y[2] > y[1] * x[2]

\* score >= 0.86
THRESHOLD_NUM == 86
THRESHOLD_DEN == 100
score_ge_threshold(x) == x[1] * THRESHOLD_DEN >= THRESHOLD_NUM * x[2]

----------------------------------------------------------------------------
(* Texts of the model *)

SungJinwoo == <<"S","u","n","g"," ","J","i","n","w","o","o">>
Jinwoo == <<"J","i","n","w","o","o">>
JinwooLower == <<"j","i","n","w","o","o">>
JinWoo == <<"J","i","n"," ","w","o","o">>
Hersh == <<"H","e","r","s","h">>
EmptyText == <<>>
He == <<"h","e">>
Hers == <<"h","e","r","s">>
HeCapital == <<"H","e"," ">>


\* the names of the entities of the sort scenarios: one letter each
SortName(i) == <<LowerSeq[i]>>

\* spellings of one name, and a name one letter away from a pronoun
NamedTexts == {Jinwoo, JinwooLower, JinWoo, Hersh}
PronounTexts == {Hers}
\* the names and the pronoun of the test sample, and the empty text
SampleTexts == {SungJinwoo, Jinwoo, JinWoo, EmptyText}
SamplePronouns == {He}
AllTexts ==
  NamedTexts \cup PronounTexts \cup SampleTexts \cup SamplePronouns
    \cup {HeCapital, strip(HeCapital)}
    \cup {SortName(i) : i \in 1..Len(LowerSeq)}

\* _norm_alias, len(text.split()) and the ratio, tabulated once over the model's texts
NormTab == [t \in AllTexts |-> norm_alias(t)]
SplitTab == [t \in AllTexts |-> split_len(t)]
Norms == {NormTab[t] : t \in AllTexts}
RatioTab == [p \in Norms \X Norms |-> ratio(p[1], p[2])]

norm(t) == NormTab[t]
tokens(t) == SplitTab[t]
sm_ratio(a, b) == RatioTab[<<a, b>>]

----------------------------------------------------------------------------
(* Data classes *)

\* Mention(chapter, sent_idx, text, ent_type)
Mention(chapter, sent_idx, text, ent_type) ==
  [chapter |-> chapter, sent_idx |-> sent_idx, text |-> text, ent_type |-> ent_type]

\* Entity(id, ent_type, canonical, aliases, first_chapter, last_chapter, mentions);
\* the mention log holds references: positions in the input mention list
Entity(id, ent_type, canonical, aliases, first_chapter, last_chapter, ms) ==
  [id |-> id, ent_type |-> ent_type, canonical |-> canonical, aliases |-> aliases,
   first_chapter |-> first_chapter, last_chapter |-> last_chapter, mentions |-> ms]

ent_priority(ent_type) ==
  CASE ent_type = "PERSON" -> 0
    [] ent_type = "LOC" -> 1
    [] ent_type = "ORG" -> 2
    [] ent_type = "MISC" -> 3
    [] OTHER -> 9

Min(a, b) == IF a < b THEN a ELSE b
Max(a, b) == IF a > b THEN a ELSE b

----------------------------------------------------------------------------
(* Alias clustering: _cluster_aliases and its inner add *)

target_type(m) == IF m.ent_type \in {"PERSON", "MISC"} THEN "PERSON" ELSE m.ent_type

\* the scan without its type test
type_matches_any(g, m) == TRUE

\* a group takes part in the scan only when its type is the target type
type_matches(g, m) == g.ent_type = target_type(m)

candidates(g) == <<g.canonical>> \o g.aliases

\* max(ratio(_norm_alias(c), m_norm) for c in candidates)
score(g, m_norm) ==
  LET rs == {sm_ratio(norm(c), m_norm) : c \in Range(candidates(g))}
  IN CHOOSE r \in rs : \A q \in rs : ~score_gt(q, r)

\* the scan "for i, g in enumerate(groups)": <<best_i, best_score>>, best_i = 0 for none
RECURSIVE best_scan(_, _, _, _, _)
best_scan(gs, m, i, best_i, best_score) ==
  IF i > Len(gs) THEN <<best_i, best_score>>
  ELSE IF ~type_matches(gs[i], m) THEN best_scan(gs, m, i + 1, best_i, best_score)
  ELSE LET sc == score(gs[i], norm(m.text))
       IN IF score_gt(sc, best_score)
            THEN best_scan(gs, m, i + 1, i, sc)
            ELSE best_scan(gs, m, i + 1, best_i, best_score)

\* the condition of the "if" that decides between joining and founding
joins(gs, m) ==
  LET b == best_scan(gs, m, 1, 0, <<0, 1>>)
  IN /\ b[1] >= 1
     /\ \/ score_ge_threshold(b[2])
        \/ norm(m.text) \in
             {norm(a) : a \in Range(gs[b[1]].aliases \o <<gs[b[1]].canonical>>)}

\* the range update without the line that lowers first_chapter
extend_range_last_only(g, m) == <<g.first_chapter, Max(g.last_chapter, m.chapter)>>

\* the chapter range after one more mention
extend_range(g, m) ==
  <<Min(g.first_chapter, m.chapter), Max(g.last_chapter, m.chapter)>>

\* a join that leaves the mention out of the log
append_mention_dropped(g, ref) == g.mentions

\* the mention log after one more mention
append_mention(g, ref) == Append(g.mentions, ref)

\* the "if" branch: mention m (reference ref) joins group g
merge(g, m, ref) ==
  Entity(g.id, g.ent_type,
         IF tokens(m.text) > tokens(g.canonical) /\ m.ent_type # "MISC"
           THEN m.text ELSE g.canonical,
         IF /\ m.ent_type # "MISC"
            /\ norm(m.text) # norm(g.canonical)
            /\ m.text \notin Range(g.aliases)
           THEN Append(g.aliases, m.text) ELSE g.aliases,
         extend_range(g, m)[1], extend_range(g, m)[2],
         append_mention(g, ref))

\* the "else" branch: mention m founds a group
new_entity(gs, m, ref) ==
  Entity(<<"E">> \o str(Len(gs) + 1), target_type(m), m.text, <<>>,
         m.chapter, m.chapter, <<ref>>)

add(gs, m, ref) ==
  IF joins(gs, m)
    THEN LET best_i == best_scan(gs, m, 1, 0, <<0, 1>>)[1]
         IN [gs EXCEPT ![best_i] = merge(gs[best_i], m, ref)]
    ELSE Append(gs, new_entity(gs, m, ref))

\* the loop "for a in [g.canonical] + g.aliases" of the post-pass
RECURSIVE dedupe_loop(_, _, _, _)
dedupe_loop(canonical, as, seen, uniq) ==
  IF as = <<>> THEN uniq
  ELSE LET a == Head(as)
           k == norm(a)
       IN IF k \notin seen
            THEN dedupe_loop(canonical, Tail(as), seen \cup {k},
                             IF a # canonical THEN Append(uniq, a) ELSE uniq)
            ELSE dedupe_loop(canonical, Tail(as), seen, uniq)

\* a post-pass that keeps the alias list as it is
dedupe_aliases_skipped(g) == g.aliases

dedupe_aliases(g) == dedupe_loop(g.canonical, <<g.canonical>> \o g.aliases, {}, <<>>)

dedupe(gs) == [i \in 1..Len(gs) |-> [gs[i] EXCEPT !.aliases = dedupe_aliases(gs[i])]]

----------------------------------------------------------------------------
(* Catalog assembly: the sort of build_entity_catalog *)

\* (_ent_priority(e.ent_type), e.first_chapter, e.id) < the same of f
key_lt(e, f) ==
  \/ ent_priority(e.ent_type) < ent_priority(f.ent_type)
  \/ /\ ent_priority(e.ent_type) = ent_priority(f.ent_type)
     /\ \/ e.first_chapter < f.first_chapter
        \/ e.first_chapter = f.first_chapter /\ str_lt(e.id, f.id)

\* list.sort(key=...): the keys are pairwise different (the ids are), so the
\* entity at position p is the one with p - 1 entities of smaller key
sort_entities(s) ==
  [p \in 1..Len(s) |->
     s[CHOOSE i \in 1..Len(s) :
         Cardinality({j \in 1..Len(s) : key_lt(s[j], s[i])}) = p - 1]]

----------------------------------------------------------------------------
(* Extraction: _spacy_ner_mentions and _apply_coref *)

\* the label test and the mapping of the recognizer's label to ent_type
ner_keeps(label) == label \in {"PERSON", "ORG", "GPE", "LOC"}
ner_ent_type(label) ==
  IF label = "PERSON" THEN "PERSON" ELSE IF label \in {"GPE", "LOC"} THEN "LOC" ELSE "ORG"

\* the mentions one chapter adds: ents is doc.ents as <<text, label>> pairs
RECURSIVE chapter_ner_mentions(_, _)
chapter_ner_mentions(ch, ents) ==
  IF ents = <<>> THEN <<>>
  ELSE (IF ner_keeps(Head(ents)[2])
          THEN <<Mention(ch, 0, Head(ents)[1], ner_ent_type(Head(ents)[2]))>>
          ELSE <<>>)
       \o chapter_ner_mentions(ch, Tail(ents))

PRONOUNS ==
  { <<"h","e">>, <<"h","i","m">>, <<"h","i","s">>, <<"s","h","e">>, <<"h","e","r">>,
    <<"h","e","r","s">>, <<"t","h","e","y">>, <<"t","h","e","m">>,
    <<"t","h","e","i","r">>, <<"i","t">>, <<"i","t","s">>, <<"i">>, <<"m","e">>,
    <<"m","y">>, <<"w","e">>, <<"u","s">>, <<"o","u","r">> }

\* re.fullmatch(r"(he|him|...|our)", surf.lower())
is_pronoun(surf) == lower(surf) \in PRONOUNS

\* the pronoun mentions one chapter adds: surfaces are the strings of the clusters
RECURSIVE chapter_pronoun_mentions(_, _)
chapter_pronoun_mentions(ch, surfaces) ==
  IF surfaces = <<>> THEN <<>>
  ELSE (IF is_pronoun(strip(Head(surfaces)))
          THEN <<Mention(ch, 0, strip(Head(surfaces)), "MISC")>>
          ELSE <<>>)
       \o chapter_pronoun_mentions(ch, Tail(surfaces))

\* "return mentions + extra"
coref_result(named, pronouns) == named \o pronouns

----------------------------------------------------------------------------
(* Inputs of the model *)

OrgTexts == {Hersh}
Chapters == 1..MaxChapter

\* the mentions the clustering pass is fed with: names the recognizer typed
\* PERSON or ORG, and pronouns (MISC), of any chapter
MentionPool ==
  {Mention(c, 0, t, "PERSON") : c \in Chapters, t \in NamedTexts}
    \cup {Mention(c, 0, t, "ORG") : c \in Chapters, t \in OrgTexts}
    \cup {Mention(c, 0, t, "MISC") : c \in Chapters, t \in PronounTexts}

\* the mentions of the test sample: its names typed PERSON, its pronoun, the
\* empty text
SamplePool ==
  {Mention(c, 0, t, "PERSON") : c \in Chapters, t \in SampleTexts}
    \cup {Mention(c, 0, t, "MISC") : c \in Chapters, t \in SamplePronouns}

\* sequences over S of length 0..n
SeqsUpTo(S, n) == UNION {[1..k -> S] : k \in 0..n}

----------------------------------------------------------------------------
(* Specification of the clustering pass, one mention at a time *)

Idle == /\ chapters = 0 /\ ci = 0 /\ ner_mentions = <<>> /\ extra = <<>> /\ COREF_OK = FALSE

Init ==
  /\ pc = "loop"
  /\ mentions = <<>>
  /\ mi = 0
  /\ groups = <<>>
  /\ entities = <<>>
  /\ Idle

\* one iteration of "for m in mentions: add(m)", the mention drawn from P
AddFrom(P) ==
  /\ pc = "loop"
  /\ Len(mentions) < MaxMentions
  /\ \E m \in P :
       /\ mentions' = Append(mentions, m)
       /\ groups' = add(groups, m, mi + 1)
  /\ mi' = mi + 1
  /\ UNCHANGED <<pc, entities, chapters, ci, ner_mentions, extra, COREF_OK>>

AddMention == AddFrom(MentionPool)

AddSampleMention == AddFrom(SamplePool)

\* the post-pass "dedupe aliases" and "return groups"
Return ==
  /\ pc = "loop"
  /\ groups' = dedupe(groups)
  /\ pc' = "done"
  /\ UNCHANGED <<mentions, mi, entities, chapters, ci, ner_mentions, extra, COREF_OK>>

Next == AddMention \/ Return

Spec == Init /\ [][Next]_vars

\* the clustering pass over the mentions of the test sample
SampleNext == AddSampleMention \/ Return

SpecSample == Init /\ [][SampleNext]_vars

----------------------------------------------------------------------------
(* Specification of build_entity_catalog: extraction, clustering, sort *)

\* doc.ents of a chapter: <<text, label>>
NerEnts == {<<Jinwoo, "PERSON">>, <<Hersh, "GPE">>, <<Jinwoo, "DATE">>}

\* the surface strings of a chapter's coreference clusters
CorefSurfaces == {Jinwoo, He, HeCapital}

PipeInit ==
  /\ pc = "ner"
  /\ chapters \in 0..MaxChapter
  /\ COREF_OK \in BOOLEAN
  /\ ci = 1
  /\ ner_mentions = <<>>
  /\ extra = <<>>
  /\ mentions = <<>>
  /\ mi = 0
  /\ groups = <<>>
  /\ entities = <<>>

\* one iteration of "for ch in chapters" of _spacy_ner_mentions
SpacyNerChapter ==
  /\ pc = "ner"
  /\ ci <= chapters
  /\ \E ents \in SeqsUpTo(NerEnts, MaxEnts) :
       ner_mentions' = ner_mentions \o chapter_ner_mentions(ci, ents)
  /\ ci' = ci + 1
  /\ UNCHANGED <<pc, mentions, mi, groups, entities, chapters, extra, COREF_OK>>

\* "return mentions" of _spacy_ner_mentions and the call of _apply_coref
SpacyNerReturn ==
  /\ pc = "ner"
  /\ ci > chapters
  /\ pc' = "coref"
  /\ ci' = 1
  /\ UNCHANGED <<mentions, mi, groups, entities, chapters, ner_mentions, extra, COREF_OK>>

\* "if not _COREF_OK: return mentions"
ApplyCorefAbsent ==
  /\ pc = "coref"
  /\ ~COREF_OK
  /\ mentions' = ner_mentions
  /\ pc' = "cluster"
  /\ UNCHANGED <<mi, groups, entities, chapters, ci, ner_mentions, extra, COREF_OK>>

\* one iteration of "for ch in chapters" of _apply_coref
ApplyCorefChapter ==
  /\ pc = "coref"
  /\ COREF_OK
  /\ ci <= chapters
  /\ \E surfaces \in SeqsUpTo(CorefSurfaces, MaxSurfaces) :
       extra' = extra \o chapter_pronoun_mentions(ci, surfaces)
  /\ ci' = ci + 1
  /\ UNCHANGED <<pc, mentions, mi, groups, entities, chapters, ner_mentions, COREF_OK>>

\* "return mentions + extra"
ApplyCorefReturn ==
  /\ pc = "coref"
  /\ COREF_OK
  /\ ci > chapters
  /\ mentions' = coref_result(ner_mentions, extra)
  /\ pc' = "cluster"
  /\ UNCHANGED <<mi, groups, entities, chapters, ci, ner_mentions, extra, COREF_OK>>

\* one iteration of "for m in mentions: add(m)" of _cluster_aliases
ClusterAdd ==
  /\ pc = "cluster"
  /\ mi < Len(mentions)
  /\ groups' = add(groups, mentions[mi + 1], mi + 1)
  /\ mi' = mi + 1
  /\ UNCHANGED <<pc, mentions, entities, chapters, ci, ner_mentions, extra, COREF_OK>>

\* the post-pass "dedupe aliases" and "return groups" of _cluster_aliases
ClusterReturn ==
  /\ pc = "cluster"
  /\ mi = Len(mentions)
  /\ groups' = dedupe(groups)
  /\ pc' = "sort"
  /\ UNCHANGED <<mentions, mi, entities, chapters, ci, ner_mentions, extra, COREF_OK>>

\* entities.sort(key=...) and the return of build_entity_catalog; groups
\* keeps the creation order
SortCatalog ==
  /\ pc = "sort"
  /\ entities' = sort_entities(groups)
  /\ pc' = "done"
  /\ UNCHANGED <<mentions, mi, groups, chapters, ci, ner_mentions, extra, COREF_OK>>

PipeNext ==
  \/ SpacyNerChapter
  \/ SpacyNerReturn
  \/ ApplyCorefAbsent
  \/ ApplyCorefChapter
  \/ ApplyCorefReturn
  \/ ClusterAdd
  \/ ClusterReturn
  \/ SortCatalog

SpecPipe == PipeInit /\ [][PipeNext]_vars

----------------------------------------------------------------------------
(* Specification of the clustering and the sort over many entities *)

SortKinds == {"PERSON", "LOC", "ORG"}

\* n mutually dissimilar PERSON names of chapter 1, one of them (j) of any
\* kind and chapter
SortInputs ==
  {<<>>} \cup
  { [i \in 1..n |-> IF i = j THEN Mention(c, 0, SortName(i), k)
                             ELSE Mention(1, 0, SortName(i), "PERSON")] :
      <<n, j, k, c>> \in {q \in (1..MaxSortMentions) \X (1..MaxSortMentions)
                                  \X SortKinds \X Chapters : q[2] <= q[1]} }

SortInit ==
  /\ pc = "cluster"
  /\ mentions \in SortInputs
  /\ mi = 0
  /\ groups = <<>>
  /\ entities = <<>>
  /\ Idle

SortNext == ClusterAdd \/ ClusterReturn \/ SortCatalog

SpecSort == SortInit /\ [][SortNext]_vars

----------------------------------------------------------------------------
(* Properties *)

\* positions <<i, j>> of the mention logs that hold the reference r
Holders(r) ==
  {q \in (1..Len(groups)) \X (1..Len(mentions)) :
     /\ q[2] <= Len(groups[q[1]].mentions)
     /\ groups[q[1]].mentions[q[2]] = r}

RECURSIVE LogTotal(_)
LogTotal(gs) == IF gs = <<>> THEN 0 ELSE Len(Head(gs).mentions) + LogTotal(Tail(gs))

LogChapters(g) == {mentions[g.mentions[j]].chapter : j \in 1..Len(g.mentions)}

\* C1: when _cluster_aliases has returned, every input mention is in the
\* mention log of exactly one entity, exactly once, and the lengths of the
\* mention logs add up to the number of input mentions.
C1_Partition ==
  pc = "done" =>
    /\ \A r \in 1..Len(mentions) : Cardinality(Holders(r)) = 1
    /\ LogTotal(groups) = Len(mentions)

\* a returned clustering of three mentions in which one mention joined an
\* entity and another founded its own
C1_Witness ==
  /\ pc = "done"
  /\ Len(mentions) = 3
  /\ Len(groups) = 2

ScenarioA ==
  <<Mention(1, 0, SungJinwoo, "PERSON"), Mention(1, 0, Jinwoo, "PERSON"),
    Mention(1, 0, He, "MISC")>>

\* C2: Scenario A (Sung Jinwoo, Jinwoo, he) returns exactly one PERSON entity
\* with canonical "Sung Jinwoo", aliases ["Jinwoo"] and three mentions.
C2_ScenarioA ==
  (pc = "done" /\ mentions = ScenarioA) =>
    /\ Len(groups) = 1
    /\ groups[1].ent_type = "PERSON"
    /\ groups[1].canonical = SungJinwoo
    /\ groups[1].aliases = <<Jinwoo>>
    /\ Len(groups[1].mentions) = 3

\* C3: no entity has a canonical name or an alias whose normalized form is a
\* pronoun of the fixed pronoun set.
C3_PronounNonLeakage ==
  \A i \in 1..Len(groups) :
    \A c \in Range(candidates(groups[i])) : norm_alias(c) \notin PRONOUNS

\* C4: the mention sequence build_entity_catalog hands to _cluster_aliases is
\* chapter-major: an earlier mention's chapter is <= a later mention's chapter.
C4_StreamOrdering ==
  pc \in {"cluster", "done"} =>
    \A i, j \in 1..Len(mentions) : i < j => mentions[i].chapter <= mentions[j].chapter

\* C5: when _cluster_aliases has returned, no two entries of
\* [canonical] + aliases of an entity have the same normalized form.
C5_AliasUniqueness ==
  pc = "done" =>
    \A i \in 1..Len(groups) :
      LET cs == candidates(groups[i])
      IN \A a, b \in 1..Len(cs) : a # b => norm_alias(cs[a]) # norm_alias(cs[b])

\* a returned entity that two named mentions of different text and the same
\* normalized form, not the canonical's, joined: both texts were appended as
\* aliases and the post-pass kept one
C5_Witness ==
  /\ pc = "done"
  /\ \E i \in 1..Len(groups) :
       \E a, b \in 1..Len(groups[i].mentions) :
         LET m == mentions[groups[i].mentions[a]]
             n == mentions[groups[i].mentions[b]]
         IN /\ a < b
            /\ m.ent_type # "MISC" /\ n.ent_type # "MISC"
            /\ m.text # n.text
            /\ norm_alias(m.text) = norm_alias(n.text)
            /\ norm_alias(m.text) # norm_alias(groups[i].canonical)
            /\ Len(groups[i].aliases) = 1

\* C6: after every prefix of the mention sequence, every entity's
\* first_chapter is the minimum and its last_chapter the maximum chapter over
\* its mention log, so first_chapter <= last_chapter.
C6_RangeInvariant ==
  \A i \in 1..Len(groups) :
    LET g == groups[i]
    IN /\ g.first_chapter \in LogChapters(g)
       /\ g.last_chapter \in LogChapters(g)
       /\ \A c \in LogChapters(g) : g.first_chapter <= c /\ c <= g.last_chapter
       /\ g.first_chapter <= g.last_chapter

\* an entity that a mention of an earlier chapter joined after a mention of a
\* later chapter
C6_Witness ==
  \E i \in 1..Len(groups) :
    LET g == groups[i]
    IN /\ Len(g.mentions) >= 2
       /\ mentions[g.mentions[1]].chapter > mentions[g.mentions[2]].chapter
       /\ g.first_chapter < g.last_chapter

\* the position in creation order of the entity e
CreationIndex(e) == CHOOSE i \in 1..Len(groups) : groups[i].id = e.id

KindRank(e) ==
  CASE e.ent_type = "PERSON" -> 0 [] e.ent_type = "LOC" -> 1 [] OTHER -> 2

\* C7: the catalog is ordered by kind (PERSON, LOCATION, ORGANIZATION), then
\* first_chapter ascending, then creation order, for any number of entities.
C7_FinalOrdering ==
  pc = "done" =>
    \A a, b \in 1..Len(entities) :
      a < b =>
        LET e == entities[a]
            f == entities[b]
        IN \/ KindRank(e) < KindRank(f)
           \/ /\ KindRank(e) = KindRank(f)
              /\ \/ e.first_chapter < f.first_chapter
                 \/ /\ e.first_chapter = f.first_chapter
                    /\ CreationIndex(e) < CreationIndex(f)

CoercedKind(m) == IF m.ent_type = "MISC" THEN "PERSON" ELSE m.ent_type

\* C8: every mention of an entity's mention log has the entity's kind as its
\* coerced kind (PERSON for PERSON and for pronoun mentions, else its own
\* kind), and the kind of an entity never changes.
C8_KindIsolation ==
  /\ [](\A i \in 1..Len(groups) :
          \A j \in 1..Len(groups[i].mentions) :
            CoercedKind(mentions[groups[i].mentions[j]]) = groups[i].ent_type)
  /\ [][\A i \in 1..Len(groups) :
          /\ i <= Len(groups')
          /\ groups'[i].ent_type = groups[i].ent_type]_vars

\* a pronoun joined a PERSON entity (founded by a name) while an
\* ORGANIZATION entity of the same name exists
C8_Witness ==
  \E i, j \in 1..Len(groups) :
    /\ groups[i].ent_type = "ORG"
    /\ groups[j].ent_type = "PERSON"
    /\ norm_alias(groups[i].canonical) = norm_alias(groups[j].canonical)
    /\ Len(groups[j].mentions) >= 2
    /\ mentions[groups[j].mentions[1]].ent_type = "PERSON"
    /\ mentions[groups[j].mentions[2]].ent_type = "MISC"

\* C9: every entity's canonical name is a non-empty string.
C9_CanonicalNonEmpty ==
  \A i \in 1..Len(groups) : groups[i].canonical # <<>>

\* C10: when _cluster_aliases has returned, the normalized text of every
\* named (non-pronoun) mention of an entity's mention log is the normalized
\* form of the entity's canonical or of one of its aliases.
C10_SurfaceFormRetention ==
  pc = "done" =>
    \A i \in 1..Len(groups) :
      \A j \in 1..Len(groups[i].mentions) :
        LET m == mentions[groups[i].mentions[j]]
        IN m.ent_type # "MISC" =>
             norm_alias(m.text) \in {norm_alias(c) : c \in Range(candidates(groups[i]))}

====
